---------------------------- MODULE Spec2Model ----------------------------
(* A model of 9cc.c: the tokenizer, the token cursor with its primitives    *)
(* (consume, expect, expect_number, at_eof), the diagnostics (error,        *)
(* error_at) and the driving loop of main that emits the assembly listing.  *)
(*                                                                          *)
(* Text is a sequence of one-character strings. A pointer into user_input   *)
(* is the 0-based byte offset it points at, so that *p is user_input[p+1]   *)
(* and the terminating NUL is at offset Len(user_input). A Token pointer is *)
(* the 1-based index of the token in the list built by new_token; the next  *)
(* field of the i-th token is i+1, and the next field of the last token     *)
(* (NULL, from calloc) is Len(toks)+1, an index that holds no token.        *)
EXTENDS Integers, Sequences, FiniteSets, TLC

(***************************************************************************)
(* Bounds of the checked inputs.                                           *)
(***************************************************************************)
MaxLen == 4

(***************************************************************************)
(* Characters (ctype.h, "C" locale).                                       *)
(***************************************************************************)
Digits == <<"0", "1", "2", "3", "4", "5", "6", "7", "8", "9">>

isdigit(c) == \E i \in 1..10 : Digits[i] = c

DigitVal(c) == (CHOOSE i \in 1..10 : Digits[i] = c) - 1

\* the vertical tab (byte 11): the string holds the character itself, there
\* being no escape for it
VT == ""

\* isspace is true of space, \t, \n, \v, \f and \r
isspace(c) == c \in {" ", "\t", "\n", VT, "\f", "\r"}

\* s[off] for a C string s: the character at offset off, NUL at the end
NUL == "NUL"

CharAt(s, off) == IF off < Len(s) THEN s[off + 1] ELSE NUL

(***************************************************************************)
(* Integers wider than the model checker's: a number is five limbs         *)
(* <<l1, l2, l3, l4, top>>, standing for                                   *)
(*   l1 + l2*Base + l3*Base^2 + l4*Base^3 + top*Base^4                     *)
(* with l1..l4 in 0..Base-1 and top any (signed) integer. A C long is such *)
(* a number with top in {0, -1} (64 bits, two's complement).               *)
(***************************************************************************)
Base == 2^16

Half == 2^15

WNorm(w) ==
    LET a1 == w[1]
        a2 == w[2] + (a1 \div Base)
        a3 == w[3] + (a2 \div Base)
        a4 == w[4] + (a3 \div Base)
        a5 == w[5] + (a4 \div Base)
    IN  <<a1 % Base, a2 % Base, a3 % Base, a4 % Base, a5>>

WOfInt(n) == WNorm(<<n, 0, 0, 0, 0>>)

WMul10Add(x, d) == WNorm(<<x[1] * 10 + d, x[2] * 10, x[3] * 10, x[4] * 10, x[5] * 10>>)

LONG_MAX == <<Base - 1, Base - 1, Base - 1, Half - 1, 0>>

(***************************************************************************)
(* strtol(p, &p, 10) as tokenize calls it: *p is a digit, so there is no   *)
(* leading white space and no sign. It converts the maximal run of digits  *)
(* at offset p, returns LONG_MAX when the value does not fit a long, and   *)
(* stores the offset of the first character after the run.                 *)
(***************************************************************************)
StrtolAcc(acc, d) ==
    LET w == WMul10Add(acc, d)
    IN  IF w[5] > 0 \/ w[4] >= Half THEN LONG_MAX ELSE w

RECURSIVE StrtolScan(_, _, _)
StrtolScan(s, i, acc) ==
    IF i < Len(s) /\ isdigit(s[i + 1])
    THEN \* the value so far is bound once, as an element of a set, and
         \* not computed again by each use of it in the digits that follow
         CHOOSE r \in {StrtolScan(s, i + 1, next) :
                          next \in {StrtolAcc(acc, DigitVal(s[i + 1]))}} : TRUE
    ELSE [val |-> acc, endp |-> i]

\* a strtol that converts one digit only
strtol_one(s, p) == [val |-> WOfInt(DigitVal(s[p + 1])), endp |-> p + 1]

strtol(s, p) == StrtolScan(s, p, WOfInt(0))

(***************************************************************************)
(* cur->val = strtol(...): the long is converted to int. A value out of    *)
(* the range of int is converted in the implementation-defined way of gcc  *)
(* and clang: the low 32 bits, read as two's complement.                   *)
(***************************************************************************)
IntOfLong(w) ==
    IF w[2] >= Half THEN (w[2] - Base) * Base + w[1] ELSE w[2] * Base + w[1]

(***************************************************************************)
(* printf("%d", n): the decimal digits of n, with a minus sign first when  *)
(* n is negative.                                                          *)
(***************************************************************************)
RECURSIVE FmtNat(_)
FmtNat(n) ==
    IF n < 10 THEN <<Digits[n + 1]>> ELSE Append(FmtNat(n \div 10), Digits[(n % 10) + 1])

FmtD(n) ==
    IF n >= 0 THEN FmtNat(n)
    ELSE LET r == n % 10
             q == n \div 10
             low == (10 - r) % 10
             high == -(q + (IF r > 0 THEN 1 ELSE 0))
         IN  <<"-">> \o (IF high = 0 THEN <<>> ELSE FmtNat(high)) \o <<Digits[low + 1]>>

(***************************************************************************)
(* Tokens.                                                                 *)
(***************************************************************************)
TK_RESERVED == "TK_RESERVED"

TK_NUM == "TK_NUM"

TK_EOF == "TK_EOF"

\* new_token: calloc zeroes val; str is the offset of the token's text.
\* The new token is linked behind cur, the last token of the list.
new_token(kind, list, str) == Append(list, [kind |-> kind, val |-> 0, str |-> str])

VARIABLES
    argv,        \* the arguments after argv[0]; argc = Len(argv) + 1
    user_input,  \* the global user_input (empty until main sets it)
    pc,          \* the statement of main (or of tokenize) that runs next
    p,           \* tokenize's scan pointer, an offset into user_input
    toks,        \* the token list built so far (head.next onwards)
    token,       \* the global token: the index of the current token (0: unset)
    out,         \* stdout: the lines written, each a sequence of characters
    err,         \* stderr: the pieces written
    pos,         \* error_at's local pos (-1 while error_at has not run)
    status       \* the exit status (-1 while the process runs)

vars == <<argv, user_input, pc, p, toks, token, out, err, pos, status>>

(***************************************************************************)
(* The inputs checked: every text of at most MaxLen characters over        *)
(* Alphabet, and the texts of Examples (the numbers around the limits of   *)
(* int and long among them).                                               *)
(***************************************************************************)
Alphabet == {"1", "2", " ", "+", "-", "*"}

Examples ==
    { <<"4", "2">>,
      <<"1", " ", "+", " ", "2", " ", "-", " ", "3">>,
      <<"5", " ", "-", " ", "2", "0">>,
      <<"1", " ", "+", " ", "*">>,
      <<"+", " ", "+", " ", "*">>,
      <<"1", " ", "+", " ", "+", " ", "2">>,
      <<"\t", "0", "0", "7", "\n", "-", "1", "0">>,
      <<"1", "2", " ", "3", "4", "a">>,
      <<VT>>,
      <<VT, "1">>,
      <<"1", VT, "+", VT, "2">>,
      <<"\r", "3", "\f", "-", VT, "4", "\n">>,
      <<"1", VT, "*">>,
      <<"2", "1", "4", "7", "4", "8", "3", "6", "4", "7">>,
      <<"2", "1", "4", "7", "4", "8", "3", "6", "4", "8">>,
      <<"0", "-", "2", "1", "4", "7", "4", "8", "3", "6", "4", "8">>,
      <<"2", "1", "4", "7", "4", "8", "3", "6", "4", "7", "+", "1">>,
      <<"4", "2", "9", "4", "9", "6", "7", "2", "9", "6">>,
      <<"4", "2", "9", "4", "9", "6", "7", "2", "9", "9", "-", "1">>,
      <<"9", "2", "2", "3", "3", "7", "2", "0", "3", "6", "8", "5", "4", "7", "7", "5", "8", "0", "7">>,
      <<"9", "9", "9", "9", "9", "9", "9", "9", "9", "9", "9", "9", "9", "9", "9", "9", "9", "9", "9", "9">> }

Texts == UNION {[1..n -> Alphabet] : n \in 0..MaxLen}

Inputs == Texts \cup Examples

\* the command lines: one argument (the expression), none, or two
Argvs == {<<s>> : s \in Inputs} \cup {<<>>, <<<<"1">>, <<"2">>>>}

argc == Len(argv) + 1

(***************************************************************************)
(* Diagnostics. The messages are Japanese in the source; they are given    *)
(* here in English, one piece of stderr each.                              *)
(***************************************************************************)
MsgTokenize == "cannot tokenize"

MsgNotNumber == "not a number"

MsgNotOp(op) == <<"'", op, "'", " is not what is here">>

MsgUsage == <<"9cc", ": the number of arguments is wrong">>

RECURSIVE Spaces(_)
Spaces(n) == IF n <= 0 THEN <<>> ELSE <<" ">> \o Spaces(n - 1)

\* printf("%*s", width, s): s right-justified in a field of width characters;
\* a field narrower than s is widened to hold s.
FmtStarS(width, s) == IF Len(s) >= width THEN s ELSE Spaces(width - Len(s)) \o s

\* error_at(loc, fmt, ...): writes the input line, the caret line and the
\* message to stderr, then exit(1).
error_at(loc, msg) ==
    /\ pos' = loc
    /\ err' = err \o user_input \o <<"\n">>
                  \o FmtStarS(loc, <<" ">>)
                  \o <<"^", " ">>
                  \o msg \o <<"\n">>
    /\ status' = 1
    /\ pc' = "exit"

\* error(fmt, ...): writes the message to stderr, then exit(1).
error(msg) ==
    /\ err' = err \o msg \o <<"\n">>
    /\ status' = 1
    /\ pc' = "exit"
    /\ pos' = pos

(***************************************************************************)
(* The cursor primitives. Each gives what the call returns and the value   *)
(* of the global token after it; fail marks the call that ends in          *)
(* error_at.                                                               *)
(***************************************************************************)
\* a consume that moves the cursor before it looks at the token
consume_early(op) ==
    IF toks[token].kind # TK_RESERVED \/ CharAt(user_input, toks[token].str) # op
    THEN [ret |-> FALSE, token |-> token + 1]
    ELSE [ret |-> TRUE, token |-> token + 1]

consume(op) ==
    IF toks[token].kind # TK_RESERVED \/ CharAt(user_input, toks[token].str) # op
    THEN [ret |-> FALSE, token |-> token]
    ELSE [ret |-> TRUE, token |-> token + 1]

expect(op) ==
    IF toks[token].kind # TK_RESERVED \/ CharAt(user_input, toks[token].str) # op
    THEN [fail |-> TRUE, token |-> token]
    ELSE [fail |-> FALSE, token |-> token + 1]

\* an expect_number that rejects TK_EOF only
expect_number_not_eof ==
    IF toks[token].kind = TK_EOF
    THEN [fail |-> TRUE, val |-> 0, token |-> token]
    ELSE [fail |-> FALSE, val |-> toks[token].val, token |-> token + 1]

\* an expect_number that leaves the cursor where it is
expect_number_stays ==
    IF toks[token].kind # TK_NUM
    THEN [fail |-> TRUE, val |-> 0, token |-> token]
    ELSE [fail |-> FALSE, val |-> toks[token].val, token |-> token]

\* an expect_number that does not look at the kind of the token
expect_number_unchecked ==
    [fail |-> FALSE, val |-> toks[token].val, token |-> token + 1]

expect_number ==
    IF toks[token].kind # TK_NUM
    THEN [fail |-> TRUE, val |-> 0, token |-> token]
    ELSE [fail |-> FALSE, val |-> toks[token].val, token |-> token + 1]

at_eof == toks[token].kind = TK_EOF

(***************************************************************************)
(* The lines of the listing.                                               *)
(***************************************************************************)
Prologue == << <<".intel_syntax noprefix">>, <<".globl main">>, <<"main:">> >>

MovLine(n) == <<"  mov rax, ">> \o FmtD(n)

AddLine(n) == <<"  add rax, ">> \o FmtD(n)

\* a subtraction written as an addition
SubLineAsAdd(n) == <<"  add rax, ">> \o FmtD(n)

SubLine(n) == <<"  sub rax, ">> \o FmtD(n)

RetLine == <<"  ret">>

(***************************************************************************)
(* The state before main runs.                                             *)
(***************************************************************************)
Init ==
    /\ argv \in Argvs
    /\ user_input = <<>>
    /\ pc = "main"
    /\ p = 0
    /\ toks = <<>>
    /\ token = 0
    /\ out = <<>>
    /\ err = <<>>
    /\ pos = -1
    /\ status = -1

(***************************************************************************)
(* main, lines 167-174: the argument count, then user_input = argv[1] and  *)
(* the call of tokenize.                                                   *)
(***************************************************************************)
MainUsage ==
    /\ pc = "main"
    /\ argc # 2
    /\ error(MsgUsage)
    /\ UNCHANGED <<argv, user_input, p, toks, token, out>>

\* a main that writes the prologue before it calls tokenize
MainStartPrologueFirst ==
    /\ pc = "main"
    /\ argc = 2
    /\ user_input' = argv[1]
    /\ p' = 0
    /\ toks' = <<>>
    /\ out' = out \o Prologue
    /\ pc' = "tokenize"
    /\ UNCHANGED <<argv, token, err, pos, status>>

MainStart ==
    /\ pc = "main"
    /\ argc = 2
    /\ user_input' = argv[1]
    /\ p' = 0
    /\ toks' = <<>>
    /\ pc' = "tokenize"
    /\ UNCHANGED <<argv, token, out, err, pos, status>>

(***************************************************************************)
(* tokenize: one step per turn of its while loop.                          *)
(***************************************************************************)
TokSpace ==
    /\ pc = "tokenize"
    /\ CharAt(user_input, p) # NUL
    /\ isspace(CharAt(user_input, p))
    /\ p' = p + 1
    /\ UNCHANGED <<argv, user_input, pc, toks, token, out, err, pos, status>>

TokReserved ==
    /\ pc = "tokenize"
    /\ CharAt(user_input, p) # NUL
    /\ ~isspace(CharAt(user_input, p))
    /\ CharAt(user_input, p) = "+" \/ CharAt(user_input, p) = "-"
    /\ toks' = new_token(TK_RESERVED, toks, p)
    /\ p' = p + 1
    /\ UNCHANGED <<argv, user_input, pc, token, out, err, pos, status>>

TokNum ==
    /\ pc = "tokenize"
    /\ CharAt(user_input, p) # NUL
    /\ ~isspace(CharAt(user_input, p))
    /\ ~(CharAt(user_input, p) = "+" \/ CharAt(user_input, p) = "-")
    /\ isdigit(CharAt(user_input, p))
    /\ LET r == strtol(user_input, p)
           l == new_token(TK_NUM, toks, p)
       IN  /\ toks' = [l EXCEPT ![Len(l)].val = IntOfLong(r.val)]
           /\ p' = r.endp
    /\ UNCHANGED <<argv, user_input, pc, token, out, err, pos, status>>

\* a tokenize that skips the character it does not know
TokErrorSkips ==
    /\ pc = "tokenize"
    /\ CharAt(user_input, p) # NUL
    /\ ~isspace(CharAt(user_input, p))
    /\ ~(CharAt(user_input, p) = "+" \/ CharAt(user_input, p) = "-")
    /\ ~isdigit(CharAt(user_input, p))
    /\ p' = p + 1
    /\ UNCHANGED <<argv, user_input, pc, toks, token, out, err, pos, status>>

TokError ==
    /\ pc = "tokenize"
    /\ CharAt(user_input, p) # NUL
    /\ ~isspace(CharAt(user_input, p))
    /\ ~(CharAt(user_input, p) = "+" \/ CharAt(user_input, p) = "-")
    /\ ~isdigit(CharAt(user_input, p))
    /\ error_at(p, <<MsgTokenize>>)
    /\ UNCHANGED <<argv, user_input, p, toks, token, out>>

\* the loop ends: the TK_EOF token, return head.next, token = tokenize()
TokEof ==
    /\ pc = "tokenize"
    /\ CharAt(user_input, p) = NUL
    /\ toks' = new_token(TK_EOF, toks, p)
    /\ token' = 1
    /\ pc' = "prologue"
    /\ UNCHANGED <<argv, user_input, p, out, err, pos, status>>

(***************************************************************************)
(* main, lines 177-198: the listing.                                       *)
(***************************************************************************)
EmitPrologue ==
    /\ pc = "prologue"
    /\ out' = out \o Prologue
    /\ pc' = "mov"
    /\ UNCHANGED <<argv, user_input, p, toks, token, err, pos, status>>

\* printf("  mov rax, %d\n", expect_number())
MovStmt ==
    /\ pc = "mov"
    /\ LET r == expect_number
       IN  IF r.fail
           THEN /\ error_at(toks[token].str, <<MsgNotNumber>>)
                /\ UNCHANGED <<token, out>>
           ELSE /\ token' = r.token
                /\ out' = Append(out, MovLine(r.val))
                /\ pc' = "loop"
                /\ UNCHANGED <<err, pos, status>>
    /\ UNCHANGED <<argv, user_input, p, toks>>

\* while (!at_eof())
LoopTest ==
    /\ pc = "loop"
    /\ pc' = IF at_eof THEN "ret" ELSE "consume"
    /\ UNCHANGED <<argv, user_input, p, toks, token, out, err, pos, status>>

\* if (consume('+'))
ConsumePlus ==
    /\ pc = "consume"
    /\ LET r == consume("+")
       IN  /\ token' = r.token
           /\ pc' = IF r.ret THEN "add" ELSE "expect"
    /\ UNCHANGED <<argv, user_input, p, toks, out, err, pos, status>>

\* printf("  add rax, %d\n", expect_number()); continue
AddStmt ==
    /\ pc = "add"
    /\ LET r == expect_number
       IN  IF r.fail
           THEN /\ error_at(toks[token].str, <<MsgNotNumber>>)
                /\ UNCHANGED <<token, out>>
           ELSE /\ token' = r.token
                /\ out' = Append(out, AddLine(r.val))
                /\ pc' = "loop"
                /\ UNCHANGED <<err, pos, status>>
    /\ UNCHANGED <<argv, user_input, p, toks>>

\* expect('-')
ExpectMinus ==
    /\ pc = "expect"
    /\ LET r == expect("-")
       IN  IF r.fail
           THEN /\ error_at(toks[token].str, MsgNotOp("-"))
                /\ UNCHANGED token
           ELSE /\ token' = r.token
                /\ pc' = "sub"
                /\ UNCHANGED <<err, pos, status>>
    /\ UNCHANGED <<argv, user_input, p, toks, out>>

\* printf("  sub rax, %d\n", expect_number())
SubStmt ==
    /\ pc = "sub"
    /\ LET r == expect_number
       IN  IF r.fail
           THEN /\ error_at(toks[token].str, <<MsgNotNumber>>)
                /\ UNCHANGED <<token, out>>
           ELSE /\ token' = r.token
                /\ out' = Append(out, SubLine(r.val))
                /\ pc' = "loop"
                /\ UNCHANGED <<err, pos, status>>
    /\ UNCHANGED <<argv, user_input, p, toks>>

\* a main that returns without writing the return instruction
EmitRetMissing ==
    /\ pc = "ret"
    /\ status' = 0
    /\ pc' = "exit"
    /\ UNCHANGED <<argv, user_input, p, toks, token, out, err, pos>>

\* printf("  ret\n"); return 0
EmitRet ==
    /\ pc = "ret"
    /\ out' = Append(out, RetLine)
    /\ status' = 0
    /\ pc' = "exit"
    /\ UNCHANGED <<argv, user_input, p, toks, token, err, pos>>

Next ==
    \/ MainUsage
    \/ MainStart
    \/ TokSpace
    \/ TokReserved
    \/ TokNum
    \/ TokError
    \/ TokEof
    \/ EmitPrologue
    \/ MovStmt
    \/ LoopTest
    \/ ConsumePlus
    \/ AddStmt
    \/ ExpectMinus
    \/ SubStmt
    \/ EmitRet

Spec == Init /\ [][Next]_vars

\* the process runs to its end: nothing outside it can hold a step back
FairSpec == Spec /\ WF_vars(Next)

(***************************************************************************)
(*                      What the claims are stated with                    *)
(***************************************************************************)

\* the run has ended
Exited == pc = "exit"

\* the statements of main that run after tokenize has returned
ConsumerPcs == {"prologue", "mov", "loop", "consume", "add", "expect", "sub", "ret"}

\* the one argument of a well-formed command line
HasInput == Len(argv) = 1

Input == argv[1]

\* the process ended in error_at with this message
LexicalError == Exited /\ status = 1 /\ pos >= 0 /\ \E i \in 1..Len(err) : err[i] = MsgTokenize

GrammarError ==
    /\ Exited /\ status = 1 /\ pos >= 0
    /\ \E i \in 1..Len(err) : err[i] = MsgNotNumber \/ err[i] = " is not what is here"

UsageError == Exited /\ status = 1 /\ pos < 0

(***************************************************************************)
(* Reading the listing back: the kind of a line, the number it carries     *)
(* (its decimal text read as a number), and the value the result register  *)
(* holds after the first n lines run. The register has 64 bits; an         *)
(* immediate is sign-extended to 64 bits.                                  *)
(***************************************************************************)
WAdd(x, y) == WNorm([i \in 1..5 |-> x[i] + y[i]])

WSub(x, y) == WNorm([i \in 1..5 |-> x[i] - y[i]])

INT_MAX == <<Base - 1, Half - 1, 0, 0, 0>>

\* x <= y for two numbers that are not negative
WLeq(x, y) == WSub(y, x)[5] >= 0

LineKind(line) ==
    CASE Head(line) = "  mov rax, " -> "mov"
      [] Head(line) = "  add rax, " -> "add"
      [] Head(line) = "  sub rax, " -> "sub"
      [] Head(line) = "  ret" -> "ret"
      [] OTHER -> "directive"

RECURSIVE ReadDigits(_, _)
ReadDigits(ds, n) ==
    IF n = 0 THEN WOfInt(0) ELSE WMul10Add(ReadDigits(ds, n - 1), DigitVal(ds[n]))

\* the number a line carries, as a wide number
LineImm(line) ==
    LET t == Tail(line)
    IN  IF Head(t) = "-"
        THEN WSub(WOfInt(0), ReadDigits(Tail(t), Len(t) - 1))
        ELSE ReadDigits(t, Len(t))

Wrap64(w) == <<w[1], w[2], w[3], w[4], IF w[4] >= Half THEN -1 ELSE 0>>

RECURSIVE Rax(_, _)
Rax(lines, n) ==
    IF n = 0 THEN WOfInt(0)
    ELSE LET k == LineKind(lines[n])
         IN  CASE k = "mov" -> Wrap64(LineImm(lines[n]))
               [] k = "add" -> Wrap64(WAdd(Rax(lines, n - 1), LineImm(lines[n])))
               [] k = "sub" -> Wrap64(WSub(Rax(lines, n - 1), LineImm(lines[n])))
               [] OTHER -> Rax(lines, n - 1)

\* the value the listing returns
Executed == Rax(out, Len(out))

(***************************************************************************)
(* The expressions n0 (op n)* and their values, read from the text itself: *)
(* white space is skipped, a number is a maximal run of digits and stands  *)
(* for its decimal value, however large.                                   *)
(***************************************************************************)
RECURSIVE SkipWs(_, _)
SkipWs(s, i) == IF i < Len(s) /\ isspace(s[i + 1]) THEN SkipWs(s, i + 1) ELSE i

RECURSIVE DigitsEnd(_, _)
DigitsEnd(s, i) == IF i < Len(s) /\ isdigit(s[i + 1]) THEN DigitsEnd(s, i + 1) ELSE i

RECURSIVE Decimal(_, _, _, _)
Decimal(s, i, e, acc) ==
    IF i = e THEN acc
    ELSE LET next == WMul10Add(acc, DigitVal(s[i + 1]))
         IN  IF next[5] >= 0 THEN Decimal(s, i + 1, e, next) ELSE next

\* ok: the text from offset i on is the rest of an expression; val: its
\* value, evaluated from left to right; fits: no number exceeds INT_MAX
RECURSIVE Evaluate(_, _, _, _, _)
Evaluate(s, i, acc, op, fits) ==
    LET j == SkipWs(s, i)
    IN  IF op # ""
        THEN IF j < Len(s) /\ isdigit(s[j + 1])
             THEN LET e == DigitsEnd(s, j)
                      n == Decimal(s, j, e, WOfInt(0))
                      v == CASE op = "+" -> WAdd(acc, n)
                             [] op = "-" -> WSub(acc, n)
                             [] OTHER -> n
                  IN  Evaluate(s, e, v, "", fits /\ WLeq(n, INT_MAX))
             ELSE [ok |-> FALSE, val |-> acc, fits |-> fits]
        ELSE IF j = Len(s) THEN [ok |-> TRUE, val |-> acc, fits |-> fits]
             ELSE IF s[j + 1] = "+" \/ s[j + 1] = "-"
                  THEN Evaluate(s, j + 1, acc, s[j + 1], fits)
                  ELSE [ok |-> FALSE, val |-> acc, fits |-> fits]

Expression(s) == Evaluate(s, 0, WOfInt(0), "first", TRUE)

Text_5_minus_20 == <<"5", " ", "-", " ", "2", "0">>

Text_1_plus_2_minus_3 == <<"1", " ", "+", " ", "2", " ", "-", " ", "3">>

(***************************************************************************)
(* C1, as claimed: for every input n0 (op n)* of non-negative integers,    *)
(* the run succeeds and the listing, executed, returns the value of the    *)
(* expression evaluated from left to right.                                *)
(* It fails for a number above INT_MAX: the token's val is an int.         *)
(***************************************************************************)
C1_AsClaimed ==
    (Exited /\ HasInput /\ Expression(Input).ok)
        => (status = 0 /\ Executed = Expression(Input).val)

(***************************************************************************)
(* C1, amended: for every input n0 (op n)* whose numbers are all at most   *)
(* INT_MAX = 2147483647, the run succeeds and the listing, executed on a   *)
(* signed 64-bit register, returns the value of the expression evaluated   *)
(* from left to right; "5 - 20" returns -15 and "1 + 2 - 3" returns 0.     *)
(***************************************************************************)
C1_Value ==
    (Exited /\ HasInput /\ Expression(Input).ok /\ Expression(Input).fits)
        => /\ status = 0
           /\ Executed = Expression(Input).val
           /\ Input = Text_5_minus_20 => Executed = WOfInt(-15)
           /\ Input = Text_1_plus_2_minus_3 => Executed = WOfInt(0)

C1_Witness ==
    /\ Exited /\ HasInput /\ status = 0
    /\ Input = Text_5_minus_20
    /\ Expression(Input).ok /\ Expression(Input).fits
    /\ Executed = WOfInt(-15)

(***************************************************************************)
(* The listing that belongs to the tokens consumed so far: a load for the  *)
(* first number, then one add or subtract for every operator whose number  *)
(* has been consumed too.                                                  *)
(***************************************************************************)
Consumed == token - 1

OpKind(i) == IF CharAt(user_input, toks[i].str) = "+" THEN "add" ELSE "sub"

ConsumedLines ==
    IF Consumed < 1 THEN <<>>
    ELSE <<[kind |-> "mov", val |-> toks[1].val]>>
         \o [j \in 1..((Consumed - 1) \div 2) |->
                [kind |-> OpKind(2 * j), val |-> toks[2 * j + 1].val]]

PrologueText == << <<".intel_syntax noprefix">>, <<".globl main">>, <<"main:">> >>

\* out, from its line first on, is the lines described by want and nothing else
LinesAre(first, want) ==
    /\ Len(out) = first - 1 + Len(want)
    /\ \A j \in 1..Len(want) :
          /\ LineKind(out[first - 1 + j]) = want[j].kind
          /\ want[j].kind # "ret" => LineImm(out[first - 1 + j]) = WOfInt(want[j].val)

HasPrologue == Len(out) >= 3 /\ SubSeq(out, 1, 3) = PrologueText

NoRet == \A i \in 1..Len(out) : LineKind(out[i]) # "ret"

(***************************************************************************)
(* C2, as claimed: when the process ends in a lexical or a grammar error,  *)
(* the output stream is empty.                                             *)
(* It fails for every grammar error: main writes the prologue before it    *)
(* asks for the first number, and each line as soon as its number is read. *)
(***************************************************************************)
C2_AsClaimed == (LexicalError \/ GrammarError) => out = <<>>

(***************************************************************************)
(* C2, amended: when the process ends in a lexical error the output stream *)
(* is empty. When it ends in a grammar error the output is an incomplete   *)
(* listing: the three prologue lines, then the load, add and subtract      *)
(* lines of the numbers consumed before the error (none when the error is  *)
(* at the first token), and never the return instruction.                  *)
(***************************************************************************)
C2_Partial ==
    /\ LexicalError => out = <<>>
    /\ GrammarError => /\ HasPrologue
                       /\ LinesAre(4, ConsumedLines)
                       /\ NoRet
                       /\ Consumed = 0 => Len(out) = 3

C2_Witness ==
    /\ GrammarError
    /\ Input = <<"1", " ", "+", " ", "+", " ", "2">>
    /\ Len(out) = 4
    /\ LineKind(out[4]) = "mov"

(***************************************************************************)
(* C3, as claimed: error_at for offset pos (0 <= pos <= length of the      *)
(* input) writes the input line, then exactly pos spaces and the caret, so *)
(* that the caret stands in column pos, then the message, and ends the     *)
(* process with status 1.                                                  *)
(* It fails for pos = 0: "%*s" with " " writes one space even then.        *)
(***************************************************************************)
CaretColumn ==
    LET line2 == Len(user_input) + 1
    IN  (CHOOSE i \in (line2 + 1)..Len(err) : err[i] = "^") - line2 - 1

C3_AsClaimed ==
    (Exited /\ pos >= 0)
        => /\ status = 1
           /\ pos <= Len(user_input)
           /\ SubSeq(err, 1, Len(user_input) + 1) = user_input \o <<"\n">>
           /\ SubSeq(err, Len(user_input) + 2, Len(user_input) + 1 + pos)
                 = [i \in 1..pos |-> " "]
           /\ err[Len(user_input) + 2 + pos] = "^"
           /\ CaretColumn = pos
           /\ err[Len(err)] = "\n"

(***************************************************************************)
(* C4: an input with a character that is neither white space, '+', '-'    *)
(* nor a digit ends with status 1 in a lexical error at the offset of the  *)
(* leftmost such character; tokenize does not return, the cursor is never  *)
(* set and nothing of main behind tokenize runs, whatever the text before  *)
(* the character is ("+ + *" is a lexical error at offset 4).              *)
(***************************************************************************)
Recognized(c) == isspace(c) \/ c = "+" \/ c = "-" \/ isdigit(c)

HasUnrecognized(s) == \E i \in 1..Len(s) : ~Recognized(s[i])

LeftmostUnrecognized(s) ==
    (CHOOSE i \in 1..Len(s) :
        ~Recognized(s[i]) /\ \A j \in 1..(i - 1) : Recognized(s[j])) - 1

C4_Lexical ==
    (HasInput /\ HasUnrecognized(Input))
        => /\ pc \notin ConsumerPcs
           /\ token = 0
           /\ out = <<>>
           /\ Exited => /\ status = 1
                        /\ LexicalError
                        /\ pos = LeftmostUnrecognized(Input)
                        /\ Input = <<"+", " ", "+", " ", "*">> => pos = 4
                        /\ Input = <<"1", " ", "+", " ", "*">> => pos = 4

C4_Witness ==
    /\ LexicalError
    /\ Input = <<"+", " ", "+", " ", "*">>
    /\ pos = 4
    /\ toks # <<>>

(***************************************************************************)
(* The grammar number (('+' | '-') number)* over the kinds of a token      *)
(* list: the token at an odd place must be a number, the token at an even  *)
(* place an operator or the end.                                           *)
(***************************************************************************)
Breaks(ts, i) == IF i % 2 = 1 THEN ts[i].kind # TK_NUM ELSE ts[i].kind = TK_NUM

MatchesGrammar(ts) == \A i \in 1..Len(ts) : ~Breaks(ts, i)

FirstBreak(ts) ==
    CHOOSE i \in 1..Len(ts) : Breaks(ts, i) /\ \A j \in 1..(i - 1) : ~Breaks(ts, j)

(***************************************************************************)
(* C5: a lexically valid input whose tokens do not match the grammar ends  *)
(* with status 1 in a grammar error at the offset of the first token that  *)
(* breaks the grammar, which is the cursor's current token: the second '+' *)
(* of "1 + + 2", the end of "1 +", the second number of "1 2", the end of  *)
(* an empty or all-blank input.                                            *)
(***************************************************************************)
C5_Grammar ==
    (Exited /\ HasInput /\ ~HasUnrecognized(Input) /\ ~MatchesGrammar(toks))
        => /\ status = 1
           /\ GrammarError
           /\ token = FirstBreak(toks)
           /\ pos = toks[FirstBreak(toks)].str
           /\ Input = <<"1", " ", "+", " ", "+", " ", "2">> => pos = 4
           /\ Input = <<"1", " ", "+">> => pos = 3 /\ toks[token].kind = TK_EOF
           /\ Input = <<"1", " ", "2">> => pos = 2
           /\ (\A i \in 1..Len(Input) : isspace(Input[i])) => pos = Len(Input)

C5_Witness ==
    /\ GrammarError
    /\ Input = <<"1", " ", "+", " ", "+", " ", "2">>
    /\ ~MatchesGrammar(toks)
    /\ FirstBreak(toks) = 3
    /\ pos = 4

(***************************************************************************)
(* C6: the token list tokenize returns is not empty; its last token, and   *)
(* no other, is TK_EOF, at the offset of the end of the input; the offsets *)
(* increase strictly along the list; the texts of the tokens do not        *)
(* overlap, a number being the maximal run of digits at its offset and an  *)
(* operator the one character '+' or '-' (what lies between two tokens is  *)
(* white space); operators and the end carry no value (val = 0).           *)
(***************************************************************************)
Returned == token >= 1

TokenEnd(t) ==
    CASE t.kind = TK_NUM -> DigitsEnd(user_input, t.str)
      [] t.kind = TK_RESERVED -> t.str + 1
      [] OTHER -> t.str

C6_TokenList ==
    Returned =>
        /\ Len(toks) >= 1
        /\ toks[Len(toks)].kind = TK_EOF
        /\ toks[Len(toks)].str = Len(user_input)
        /\ Cardinality({i \in 1..Len(toks) : toks[i].kind = TK_EOF}) = 1
        /\ \A i \in 1..(Len(toks) - 1) :
              /\ toks[i].str < toks[i + 1].str
              /\ TokenEnd(toks[i]) <= toks[i + 1].str
              /\ \A k \in TokenEnd(toks[i])..(toks[i + 1].str - 1) :
                    isspace(CharAt(user_input, k))
        /\ \A k \in 0..(toks[1].str - 1) : isspace(CharAt(user_input, k))
        /\ \A i \in 1..Len(toks) :
              /\ toks[i].kind = TK_NUM =>
                    /\ isdigit(CharAt(user_input, toks[i].str))
                    /\ TokenEnd(toks[i]) > toks[i].str
                    /\ toks[i].str > 0 => ~isdigit(CharAt(user_input, toks[i].str - 1))
              /\ toks[i].kind = TK_RESERVED =>
                    /\ CharAt(user_input, toks[i].str) \in {"+", "-"}
                    /\ toks[i].val = 0
              /\ toks[i].kind = TK_EOF => toks[i].val = 0

C6_Witness ==
    /\ pc = "prologue"
    /\ user_input = <<"\t", "0", "0", "7", "\n", "-", "1", "0">>
    /\ Len(toks) = 4
    /\ toks[1] = [kind |-> TK_NUM, val |-> 7, str |-> 1]
    /\ toks[3] = [kind |-> TK_NUM, val |-> 10, str |-> 6]

(***************************************************************************)
(* C7, as claimed: on a successful run the lines between the load and the  *)
(* return are one per token consumed after the first number.               *)
(* It fails for "1+2": two tokens are consumed after the first number, and *)
(* one line is written.                                                    *)
(***************************************************************************)
OperatorsOf(s) == SelectSeq(s, LAMBDA c : c = "+" \/ c = "-")

Success == Exited /\ status = 0

ListingShape ==
    /\ HasPrologue
    /\ LinesAre(4, ConsumedLines \o <<[kind |-> "ret", val |-> 0]>>)
    /\ \A j \in 1..Len(OperatorsOf(user_input)) :
          LineKind(out[4 + j]) = IF OperatorsOf(user_input)[j] = "+" THEN "add" ELSE "sub"
    /\ user_input = <<"4", "2">> =>
          /\ Len(out) = 5
          /\ LineKind(out[4]) = "mov" /\ LineKind(out[5]) = "ret"
          /\ Executed = WOfInt(42)

C7_AsClaimed ==
    Success => /\ ListingShape
               /\ Len(out) - 5 = Consumed - 1

(***************************************************************************)
(* C7, amended: on a successful run the listing is exactly the three       *)
(* prologue lines, one load line carrying the value of the first number    *)
(* token, one add or subtract line per operator token (that is, per two    *)
(* tokens consumed after the first number: the operator and its number),   *)
(* in the order of the operators in the input, and one return line; for    *)
(* "42" one load and one return with nothing between.                      *)
(***************************************************************************)
C7_Listing ==
    Success => /\ ListingShape
               /\ Consumed = Len(toks) - 1
               /\ Len(out) - 5 = Len(OperatorsOf(user_input))
               /\ 2 * (Len(out) - 5) = Consumed - 1

C7_Witness ==
    /\ Success
    /\ user_input = Text_1_plus_2_minus_3
    /\ Len(out) = 7
    /\ LineKind(out[5]) = "add" /\ LineKind(out[6]) = "sub"

(***************************************************************************)
(* C8: consume(c) returns false and changes nothing when the current token *)
(* is not the operator c (a number and TK_EOF included), and otherwise     *)
(* returns true and moves the cursor one token on; so does the call in the *)
(* loop of main. In every step the cursor stays or moves one token on, the *)
(* token list is left alone, and the cursor moves exactly in the steps in  *)
(* which consume, expect or expect_number succeeds.                        *)
(***************************************************************************)
IsOperator(c) ==
    toks[token].kind = TK_RESERVED /\ user_input[toks[token].str + 1] = c

Succeeds ==
    \/ pc = "consume" /\ pc' = "add"
    \/ pc = "expect" /\ pc' = "sub"
    \/ pc \in {"mov", "add", "sub"} /\ pc' = "loop"

C8_Cursor ==
    [][Returned =>
          /\ \A c \in {"+", "-"} :
                consume(c) = IF IsOperator(c)
                             THEN [ret |-> TRUE, token |-> token + 1]
                             ELSE [ret |-> FALSE, token |-> token]
          /\ pc = "consume" =>
                /\ IsOperator("+") => token' = token + 1 /\ pc' = "add"
                /\ ~IsOperator("+") => token' = token /\ pc' = "expect"
                /\ UNCHANGED <<toks, out, err, status, user_input>>
          /\ token' \in {token, token + 1}
          /\ toks' = toks
          /\ (token' = token + 1) <=> Succeeds
      ]_vars

C8_Witness ==
    /\ pc = "expect"
    /\ token = 2
    /\ toks[token].kind = TK_NUM
    /\ ~consume("+").ret
    /\ user_input = <<"1", " ", "2">>

(***************************************************************************)
(* C9: every run ends, either in main's return after the loop (status 0,   *)
(* the return instruction being the last line written, nothing on stderr)  *)
(* or in error or error_at (status 1). Each turn of the loop ends the      *)
(* process or moves the cursor two tokens on, so that the loop turns fewer *)
(* times than half the number of tokens.                                   *)
(***************************************************************************)
Turns == Cardinality({i \in 1..Len(out) : LineKind(out[i]) \in {"add", "sub"}})

EndsProperly ==
    \/ /\ status = 0
       /\ out # <<>> /\ LineKind(out[Len(out)]) = "ret"
       /\ err = <<>> /\ pos = -1
    \/ /\ status = 1
       /\ err # <<>>
       /\ NoRet

LoopAdvances ==
    /\ pc = "loop" => token = 2 + 2 * Turns
    /\ pc \in {"consume", "add", "expect", "sub"} => 2 * (Turns + 1) < Len(toks)
    /\ Exited /\ Returned => 2 * Turns < Len(toks)

C9_Terminates ==
    /\ <>Exited
    /\ [](Exited => EndsProperly)
    /\ [](~Exited => status = -1)
    /\ []LoopAdvances

C9_Witness ==
    /\ Success
    /\ user_input = Text_1_plus_2_minus_3
    /\ Turns = 2
    /\ token = 6

(***************************************************************************)
(* C10: from the return of tokenize on, the cursor is a token of the list: *)
(* at TK_EOF consume returns false and expect and expect_number end the    *)
(* process, so the cursor never becomes the next field of TK_EOF; a        *)
(* successful run ends with the cursor at TK_EOF.                          *)
(***************************************************************************)
C10_InList ==
    Returned =>
        /\ token \in 1..Len(toks)
        /\ Success => toks[token].kind = TK_EOF
        /\ toks[token].kind = TK_EOF =>
              /\ at_eof
              /\ consume("+") = [ret |-> FALSE, token |-> token]
              /\ consume("-") = [ret |-> FALSE, token |-> token]
              /\ expect("-").fail
              /\ expect_number.fail

C10_Witness ==
    /\ GrammarError
    /\ user_input = <<"1", " ", "+">>
    /\ token = 3
    /\ toks[token].kind = TK_EOF

============================================================================
